---- MODULE Spec2Model ----
(***************************************************************************)
(* A model of the host-metrics sampling agent of src/src/main.rs: the     *)
(* main loop, NetworkTraffic::update, get_heaviest_process and            *)
(* get_gpu_info.                                                           *)
(*                                                                         *)
(* Text is a sequence of one-character strings.  A float is a record      *)
(* [k, n, d]: k = "fin" is the rational n/d in lowest terms (d > 0),       *)
(* "inf" and "nan" are the IEEE specials, and the "wrap*" kinds are the    *)
(* quotients whose operands are 2^64 + n or 2^64 + d after a wrapped u64   *)
(* subtraction (2^64 itself is beyond the integers TLC computes with).     *)
(***************************************************************************)
EXTENDS Integers, Sequences, FiniteSets, TLC

\* ---------------------------------------------------------------- bounds
\* Largest cumulative byte counter the network collaborator reports.
MaxBytes == 2
\* Largest wall-clock second a clock read returns.
MaxTime == 3
\* Number of GPU utility invocations explored.
MaxGpuCalls == 2
\* Longest process snapshot explored by the selector specification.
MaxProcs == 3
\* Longest GPU utility output explored by the GPU specification.
MaxGpuLen == 7
\* Failed update() calls in a row that are told apart; more count as this many.
MaxFails == 2

\* ---------------------------------------------------------------- values
Ok(v) == [ok |-> TRUE, v |-> v]
Err(e) == [ok |-> FALSE, v |-> e]

Abs(x) == IF x < 0 THEN -x ELSE x

RECURSIVE GCD(_, _)
GCD(a, b) == IF b = 0 THEN a ELSE GCD(b, a % b)

\* The float n/d (d > 0), in lowest terms.
Fin(n, d) ==
    LET g == GCD(Abs(n), d)
    IN  [k |-> "fin", n |-> (IF n < 0 THEN -(Abs(n) \div g) ELSE n \div g), d |-> d \div g]

Inf == [k |-> "inf", n |-> 1, d |-> 0]
NaN == [k |-> "nan", n |-> 0, d |-> 0]
Zero == Fin(0, 1)
MinusOne == Fin(-1, 1)

\* u64 subtraction a - b.  When a < b the difference does not fit: a build with
\* overflow checks panics, a build without them yields 2^64 + (a - b).
U64Sub(a, b) == [wrapped |-> a < b, v |-> a - b]

\* x as f64 / y as f64 for two u64 differences.
F64Div(x, y) ==
    CASE ~x.wrapped /\ ~y.wrapped ->
            IF y.v = 0 THEN (IF x.v = 0 THEN NaN ELSE Inf) ELSE Fin(x.v, y.v)
      [] x.wrapped /\ ~y.wrapped ->
            IF y.v = 0 THEN Inf ELSE [k |-> "wrapnum", n |-> x.v, d |-> y.v]
      [] ~x.wrapped /\ y.wrapped ->
            IF x.v = 0 THEN Zero ELSE [k |-> "wrapden", n |-> x.v, d |-> y.v]
      [] OTHER -> [k |-> "wrapboth", n |-> x.v, d |-> y.v]

\* ------------------------------------------------------------------ text
Digits == <<"0", "1", "2", "3", "4", "5", "6", "7", "8", "9">>
IsDigit(c) == c \in {"0", "1", "2", "3", "4", "5", "6", "7", "8", "9"}
DigitVal(c) == (CHOOSE i \in 1..10 : Digits[i] = c) - 1
IsWhitespace(c) == c \in {" ", "\n", "\r", "\t"}

\* The decimal digits of n >= 0 (integer Display).
RECURSIVE ToDigits(_)
ToDigits(n) == IF n < 10 THEN <<Digits[n + 1]>> ELSE Append(ToDigits(n \div 10), Digits[(n % 10) + 1])

\* The value of a sequence of digits, most significant first.
RECURSIVE DigitsVal(_)
DigitsVal(s) == IF s = <<>> THEN 0 ELSE 10 * DigitsVal(SubSeq(s, 1, Len(s) - 1)) + DigitVal(s[Len(s)])

AllDigits(s) == \A i \in 1..Len(s) : IsDigit(s[i])

\* str::parse::<u64>: an optional "+", then one or more digits.
ParseU64(s) ==
    LET body == IF s # <<>> /\ s[1] = "+" THEN Tail(s) ELSE s
    IN  IF body # <<>> /\ AllDigits(body) THEN Ok(DigitsVal(body)) ELSE Err("ParseIntError")

RECURSIVE Pow10(_)
Pow10(k) == IF k = 0 THEN 1 ELSE 10 * Pow10(k - 1)

\* str::parse::<f32> on text without exponent or letters: an optional sign, digits
\* with at most one ".", at least one digit in all.  Any other character fails.
ParseF32(s) ==
    LET neg == s # <<>> /\ s[1] = "-"
        body == IF s # <<>> /\ s[1] \in {"+", "-"} THEN Tail(s) ELSE s
        dots == {i \in 1..Len(body) : body[i] = "."}
        well == /\ Cardinality(dots) <= 1
                /\ \A i \in 1..Len(body) : IsDigit(body[i]) \/ body[i] = "."
                /\ \E i \in 1..Len(body) : IsDigit(body[i])
        p == IF dots = {} THEN Len(body) + 1 ELSE CHOOSE i \in dots : TRUE
        ip == SubSeq(body, 1, p - 1)
        fp == SubSeq(body, p + 1, Len(body))
        mag == DigitsVal(ip \o fp)
    IN  IF well THEN Ok(Fin(IF neg THEN -mag ELSE mag, Pow10(Len(fp)))) ELSE Err("ParseFloatError")

\* str::trim: leading and trailing whitespace removed.
RECURSIVE TrimStart(_)
TrimStart(s) == IF s # <<>> /\ IsWhitespace(Head(s)) THEN TrimStart(Tail(s)) ELSE s
RECURSIVE TrimEnd(_)
TrimEnd(s) == IF s # <<>> /\ IsWhitespace(s[Len(s)]) THEN TrimEnd(SubSeq(s, 1, Len(s) - 1)) ELSE s
Trim(s) == TrimEnd(TrimStart(s))

\* str::split(", "): the pieces between non-overlapping ", ", left to right.
\* The piece being read starts at index from; i is the index being looked at.
RECURSIVE SplitFrom(_, _, _)
SplitFrom(s, from, i) ==
    IF i > Len(s) THEN <<SubSeq(s, from, Len(s))>>
    ELSE IF i < Len(s) /\ s[i] = "," /\ s[i + 1] = " "
         THEN <<SubSeq(s, from, i - 1)>> \o SplitFrom(s, i + 2, i + 2)
         ELSE SplitFrom(s, from, i + 1)
SplitCommaSpace(s) == SplitFrom(s, 1, 1)

\* str::lines: the text cut at each "\n", a "\r" before it dropped, no last
\* empty line.
RECURSIVE LinesFrom(_, _, _)
LinesFrom(s, from, i) ==
    IF i > Len(s) THEN (IF from > Len(s) THEN <<>> ELSE <<SubSeq(s, from, Len(s))>>)
    ELSE IF s[i] = "\n"
         THEN <<SubSeq(s, from, IF i > from /\ s[i - 1] = "\r" THEN i - 2 ELSE i - 1)>>
              \o LinesFrom(s, i + 1, i + 1)
         ELSE LinesFrom(s, from, i + 1)
Lines(s) == LinesFrom(s, 1, 1)

\* str::split_whitespace: the maximal runs of non-whitespace characters.
RECURSIVE WordsFrom(_, _, _)
WordsFrom(s, from, i) ==
    IF i > Len(s) THEN (IF from > Len(s) THEN <<>> ELSE <<SubSeq(s, from, Len(s))>>)
    ELSE IF IsWhitespace(s[i])
         THEN (IF i > from THEN <<SubSeq(s, from, i - 1)>> ELSE <<>>) \o WordsFrom(s, i + 1, i + 1)
         ELSE WordsFrom(s, from, i + 1)
SplitWhitespace(s) == WordsFrom(s, 1, 1)

\* Display of a float ({}), as text.  A finite value with a short terminating
\* decimal expansion prints as that decimal; the others are kept symbolic.
FracDigits(d) == IF d = 1 THEN 0 ELSE IF 10 % d = 0 THEN 1 ELSE IF 100 % d = 0 THEN 2
                 ELSE IF 1000 % d = 0 THEN 3 ELSE -1
PadZeros(s, w) == [i \in 1..(w - Len(s)) |-> "0"] \o s
DisplayFloat(x) ==
    CASE x.k = "inf" -> <<"i", "n", "f">>
      [] x.k = "nan" -> <<"N", "a", "N">>
      [] x.k = "fin" /\ FracDigits(x.d) >= 0 ->
            LET w == FracDigits(x.d)
                scaled == Abs(x.n) * (Pow10(w) \div x.d)
                ip == ToDigits(scaled \div Pow10(w))
                fp == IF w = 0 THEN <<>> ELSE <<".">> \o PadZeros(ToDigits(scaled % Pow10(w)), w)
            IN  (IF x.n < 0 THEN <<"-">> ELSE <<>>) \o ip \o fp
      [] x.k = "fin" -> (IF x.n < 0 THEN <<"-">> ELSE <<>>) \o ToDigits(Abs(x.n)) \o <<"/">> \o ToDigits(x.d)
      [] OTHER -> <<x.k, "(">> \o ToDigits(Abs(x.n)) \o <<",">> \o ToDigits(Abs(x.d)) \o <<")">>

\* Duration::as_nanos, the u128 secs * 10^9 + subsec_nanos, kept as the pair
\* (it is beyond the integers TLC computes with); its Display is the decimal
\* digits of the pair.
as_nanos(dur) == [secs |-> dur.secs, nanos |-> dur.nanos]
DisplayNanos(t) ==
    IF t.secs = 0 THEN ToDigits(t.nanos) ELSE ToDigits(t.secs) \o PadZeros(ToDigits(t.nanos), 9)

\* SystemTime::duration_since(UNIX_EPOCH): an error for an instant before the
\* epoch (secs < 0).
DurationSinceEpoch(t) == IF t.secs < 0 THEN Err("SystemTimeError") ELSE Ok(t)

\* ------------------------------------------------------- NetworkTraffic
NetworkTraffic_new == [bytes_received |-> 0, bytes_sent |-> 0, timestamp |-> 0]

\* RateOf with -1.0 for a first sample.
RateOf_FirstSampleIsSentinel(current, previous, now, timestamp, checks) ==
    IF timestamp > 0
    THEN LET num == U64Sub(current, previous)
             den == U64Sub(now, timestamp)
         IN  IF checks /\ num.wrapped THEN [panic |-> TRUE, why |-> "counter", v |-> NaN]
             ELSE IF checks /\ den.wrapped THEN [panic |-> TRUE, why |-> "time", v |-> NaN]
             ELSE [panic |-> FALSE, why |-> "", v |-> F64Div(num, den)]
    ELSE [panic |-> FALSE, why |-> "", v |-> MinusOne]

\* RateOf without the test for a first sample.
RateOf_NoFirstSample(current, previous, now, timestamp, checks) ==
    LET num == U64Sub(current, previous)
        den == U64Sub(now, timestamp)
    IN  IF checks /\ num.wrapped THEN [panic |-> TRUE, why |-> "counter", v |-> NaN]
        ELSE IF checks /\ den.wrapped THEN [panic |-> TRUE, why |-> "time", v |-> NaN]
        ELSE [panic |-> FALSE, why |-> "", v |-> F64Div(num, den)]

\* RateOf dividing by the current second instead of the elapsed seconds.
RateOf_DividesByNow(current, previous, now, timestamp, checks) ==
    IF timestamp > 0
    THEN LET num == U64Sub(current, previous)
             den == U64Sub(now, 0)
         IN  IF checks /\ num.wrapped THEN [panic |-> TRUE, why |-> "counter", v |-> NaN]
             ELSE [panic |-> FALSE, why |-> "", v |-> F64Div(num, den)]
    ELSE [panic |-> FALSE, why |-> "", v |-> Zero]

\* One direction's rate: lines 145-149 and 151-155.  checks is whether the
\* build has overflow checks; the counter difference is evaluated before the
\* time difference.
RateOf(current, previous, now, timestamp, checks) ==
    IF timestamp > 0
    THEN LET num == U64Sub(current, previous)
             den == U64Sub(now, timestamp)
         IN  IF checks /\ num.wrapped THEN [panic |-> TRUE, why |-> "counter", v |-> NaN]
             ELSE IF checks /\ den.wrapped THEN [panic |-> TRUE, why |-> "time", v |-> NaN]
             ELSE [panic |-> FALSE, why |-> "", v |-> F64Div(num, den)]
    ELSE [panic |-> FALSE, why |-> "", v |-> Zero]

\* An early return that moves the stored time on by a second, as if the
\* failed tick had taken a reading.
UpdateErr_AdvancesTime(self, msg) ==
    [kind |-> "err", self |-> [self EXCEPT !.timestamp = IF @ > 0 THEN @ + 1 ELSE @],
     rates |-> <<NaN, NaN>>, msg |-> msg]

\* An early return that also forgets the stored sample.
UpdateErr_ForgetsSample(self, msg) ==
    [kind |-> "err", self |-> NetworkTraffic_new, rates |-> <<NaN, NaN>>, msg |-> msg]

\* An early return with an error (the ? operators and lines 132, 137): the
\* tracker is as it was.
UpdateErr(self, msg) == [kind |-> "err", self |-> self, rates |-> <<NaN, NaN>>, msg |-> msg]
UpdatePanic(self, msg) == [kind |-> "panic", self |-> self, rates |-> <<NaN, NaN>>, msg |-> msg]

\* NetworkTraffic::update.  cmd is what running `cmd /C netstat -e` gives:
\* [spawned, utf8, stdout]; clock is the instant SystemTime::now() returns.
update(self, cmd, clock, checks) ==
    IF ~cmd.spawned THEN UpdateErr(self, "io::Error")
    ELSE IF ~cmd.utf8 THEN UpdateErr(self, "Utf8Error")
    ELSE LET lines == Lines(cmd.stdout) IN
    IF Len(lines) < 5 THEN UpdateErr(self, "Unexpected output from netstat -e")
    ELSE LET parts == SplitWhitespace(lines[5]) IN
    IF Len(parts) < 3 THEN UpdateErr(self, "Unexpected output from netstat -e")
    ELSE LET rx == ParseU64(parts[2]) IN
    IF ~rx.ok THEN UpdateErr(self, rx.v)
    ELSE LET tx == ParseU64(parts[3]) IN
    IF ~tx.ok THEN UpdateErr(self, tx.v)
    ELSE LET since == DurationSinceEpoch(clock) IN
    IF ~since.ok THEN UpdateErr(self, since.v)
    ELSE LET now == since.v.secs
             dl == RateOf(rx.v, self.bytes_received, now, self.timestamp, checks)
             ul == RateOf(tx.v, self.bytes_sent, now, self.timestamp, checks)
         IN  IF dl.panic THEN UpdatePanic(self, "attempt to subtract with overflow")
             ELSE IF ul.panic THEN UpdatePanic(self, "attempt to subtract with overflow")
             ELSE [kind |-> "ok",
                   self |-> [bytes_received |-> rx.v, bytes_sent |-> tx.v, timestamp |-> now],
                   rates |-> <<dl.v, ul.v>>,
                   msg |-> ""]

\* ------------------------------------------------- get_heaviest_process
FloatGt(a, b) == a.n * b.d > b.n * a.d

\* The scan with >= in place of >.
RECURSIVE ScanProcesses_AtLeast(_, _)
ScanProcesses_AtLeast(procs, acc) ==
    IF procs = <<>> THEN acc
    ELSE LET proc == Head(procs)
         IN  ScanProcesses_AtLeast(Tail(procs),
                 IF ~FloatGt(acc.max_cpu_usage, proc.cpu_usage)
                 THEN [max_cpu_usage |-> proc.cpu_usage, heaviest_process_name |-> proc.name]
                 ELSE acc)

\* The scan of lines 180-191 over the snapshot in iteration order; acc is
\* [max_cpu_usage, heaviest_process_name].
RECURSIVE ScanProcesses(_, _)
ScanProcesses(procs, acc) ==
    IF procs = <<>> THEN acc
    ELSE LET proc == Head(procs)
         IN  ScanProcesses(Tail(procs),
                 IF FloatGt(proc.cpu_usage, acc.max_cpu_usage)
                 THEN [max_cpu_usage |-> proc.cpu_usage, heaviest_process_name |-> proc.name]
                 ELSE acc)

get_heaviest_process(procs) ==
    ScanProcesses(procs, [max_cpu_usage |-> Zero, heaviest_process_name |-> ""]).heaviest_process_name

\* ---------------------------------------------------------- get_gpu_info
Sentinels == <<MinusOne, MinusOne, MinusOne>>

\* parse::<f32>().unwrap_or(-1.0) of one trimmed piece.
FieldOrSentinel(piece) == LET r == ParseF32(Trim(piece)) IN IF r.ok THEN r.v ELSE MinusOne

\* get_gpu_info running the utility before it looks at exclude_gpu.
get_gpu_info_RunsFirst(exclude, cmd) ==
    IF exclude \/ ~cmd.spawned THEN [kind |-> "ok", v |-> Sentinels, invoked |-> TRUE, msg |-> ""]
    ELSE IF ~cmd.utf8
         THEN [kind |-> "panic", v |-> Sentinels, invoked |-> TRUE,
               msg |-> "called Result::unwrap() on an Err value: Utf8Error"]
    ELSE LET splits == SplitCommaSpace(cmd.stdout) IN
         IF Len(splits) < 3
         THEN [kind |-> "panic", v |-> Sentinels, invoked |-> TRUE, msg |-> "index out of bounds"]
         ELSE [kind |-> "ok",
               v |-> <<FieldOrSentinel(splits[1]), FieldOrSentinel(splits[2]), FieldOrSentinel(splits[3])>>,
               invoked |-> TRUE, msg |-> ""]

\* get_gpu_info giving up on all three fields when one does not parse.
get_gpu_info_AllOrNothing(exclude, cmd) ==
    IF exclude THEN [kind |-> "ok", v |-> Sentinels, invoked |-> FALSE, msg |-> ""]
    ELSE IF ~cmd.spawned THEN [kind |-> "ok", v |-> Sentinels, invoked |-> TRUE, msg |-> ""]
    ELSE IF ~cmd.utf8
         THEN [kind |-> "panic", v |-> Sentinels, invoked |-> TRUE,
               msg |-> "called Result::unwrap() on an Err value: Utf8Error"]
    ELSE LET splits == SplitCommaSpace(cmd.stdout) IN
         IF Len(splits) < 3
         THEN [kind |-> "panic", v |-> Sentinels, invoked |-> TRUE, msg |-> "index out of bounds"]
         ELSE IF \E i \in 1..3 : ~ParseF32(Trim(splits[i])).ok
              THEN [kind |-> "ok", v |-> Sentinels, invoked |-> TRUE, msg |-> ""]
              ELSE [kind |-> "ok",
                    v |-> <<FieldOrSentinel(splits[1]), FieldOrSentinel(splits[2]), FieldOrSentinel(splits[3])>>,
                    invoked |-> TRUE, msg |-> ""]

\* get_gpu_info unwrapping the result of running the utility.
get_gpu_info_UnwrapsSpawn(exclude, cmd) ==
    IF exclude THEN [kind |-> "ok", v |-> Sentinels, invoked |-> FALSE, msg |-> ""]
    ELSE IF ~cmd.spawned
         THEN [kind |-> "panic", v |-> Sentinels, invoked |-> TRUE,
               msg |-> "called Result::unwrap() on an Err value: io::Error"]
    ELSE IF ~cmd.utf8
         THEN [kind |-> "panic", v |-> Sentinels, invoked |-> TRUE,
               msg |-> "called Result::unwrap() on an Err value: Utf8Error"]
    ELSE LET splits == SplitCommaSpace(cmd.stdout) IN
         IF Len(splits) < 3
         THEN [kind |-> "panic", v |-> Sentinels, invoked |-> TRUE, msg |-> "index out of bounds"]
         ELSE [kind |-> "ok",
               v |-> <<FieldOrSentinel(splits[1]), FieldOrSentinel(splits[2]), FieldOrSentinel(splits[3])>>,
               invoked |-> TRUE, msg |-> ""]

\* get_gpu_info.  cmd is what running nvidia-smi gives when it is run:
\* [spawned, utf8, stdout].  invoked tells whether the utility was run.
get_gpu_info(exclude, cmd) ==
    IF exclude THEN [kind |-> "ok", v |-> Sentinels, invoked |-> FALSE, msg |-> ""]
    ELSE IF ~cmd.spawned THEN [kind |-> "ok", v |-> Sentinels, invoked |-> TRUE, msg |-> ""]
    ELSE IF ~cmd.utf8
         THEN [kind |-> "panic", v |-> Sentinels, invoked |-> TRUE,
               msg |-> "called Result::unwrap() on an Err value: Utf8Error"]
    ELSE LET splits == SplitCommaSpace(cmd.stdout) IN
         IF Len(splits) < 3
         THEN [kind |-> "panic", v |-> Sentinels, invoked |-> TRUE, msg |-> "index out of bounds"]
         ELSE [kind |-> "ok",
               v |-> <<FieldOrSentinel(splits[1]), FieldOrSentinel(splits[2]), FieldOrSentinel(splits[3])>>,
               invoked |-> TRUE, msg |-> ""]

\* ---------------------------------------------------------------- encode
\* The format! of lines 83-94: the literal pieces and the Display of each value.
FormatRecord(cpu, ram, name, gu, gt, gp, dl, ul, ts) ==
    <<"system_metrics,host=localhost cpu_usage=">> \o DisplayFloat(cpu)
    \o <<",ram_usage=">> \o DisplayFloat(ram)
    \o <<",heaviest_process=\"">> \o <<name>> \o <<"\"">>
    \o <<",gpu_usage=">> \o DisplayFloat(gu)
    \o <<",gpu_temp=">> \o DisplayFloat(gt)
    \o <<",gpu_power=">> \o DisplayFloat(gp)
    \o <<",download_rate=">> \o DisplayFloat(dl)
    \o <<",upload_rate=">> \o DisplayFloat(ul)
    \o <<" ">> \o DisplayNanos(ts)

\* ------------------------------------------------------------ environment
\* What the collaborators can report in one tick.
CpuSamples == {Zero, Fin(25, 2)}
MemSamples == {536870912, 1073741824}
ProcessSnapshots ==
    { <<>>,
      <<[name |-> "A", cpu_usage |-> Fin(10, 1)], [name |-> "B", cpu_usage |-> Fin(55, 1)],
        [name |-> "C", cpu_usage |-> Fin(30, 1)]>> }

\* The instants SystemTime::now() can return to the loop: a clock set before
\* the epoch (secs = -1), the epoch itself, and a later instant.
TickInstants == {[secs |-> -1, nanos |-> 0], [secs |-> 0, nanos |-> 5], [secs |-> MaxTime, nanos |-> 0]}

\* `netstat -e` output: four lines of heading (shortened), then the counters.
NetstatHeading ==
    <<"I", "f", "\r", "\n", "\r", "\n", " ", "R", "x", " ", "T", "x", "\r", "\n", "\r", "\n">>
Bytes == <<"B", "y", "t", "e", "s", " ", " ">>
Ran(text) == [spawned |-> TRUE, utf8 |-> TRUE, stdout |-> text]

\* What the network collaborator and the clock do in one call of update():
\* class "good" is a well-formed output with counters rx, tx read at second
\* secs; each other class is one way the call fails.
NetEnv ==
    { [class |-> "good", rx |-> rx, tx |-> tx, secs |-> t] :
          rx \in 0..MaxBytes, tx \in 0..MaxBytes, t \in 0..MaxTime }
    \cup { [class |-> c, rx |-> 0, tx |-> 0, secs |-> 0] :
               c \in {"spawn", "utf8", "short", "fields", "nonint_rx", "nonint_tx"} }
    \cup { [class |-> "clock", rx |-> 0, tx |-> 0, secs |-> -1] }

\* The calls the loop specification explores: the extreme counters, and the
\* seconds 0, 1 and MaxTime.
LoopNetEnv ==
    { env \in NetEnv : env.class = "good" =>
          /\ env.rx \in {0, MaxBytes} /\ env.tx \in {0, MaxBytes} /\ env.secs \in {0, 1, MaxTime} }

NetstatCommand(env) ==
    CASE env.class = "spawn" -> [spawned |-> FALSE, utf8 |-> TRUE, stdout |-> <<>>]
      [] env.class = "utf8" -> [spawned |-> TRUE, utf8 |-> FALSE, stdout |-> <<>>]
      [] env.class = "short" -> Ran(NetstatHeading)
      [] env.class = "fields" -> Ran(NetstatHeading \o Bytes \o <<"1", "\r", "\n">>)
      [] env.class = "nonint_rx" -> Ran(NetstatHeading \o Bytes \o <<"1", ",", "2", " ", "1", "\r", "\n">>)
      [] env.class = "nonint_tx" -> Ran(NetstatHeading \o Bytes \o <<"1", " ", "x", "\r", "\n">>)
      [] OTHER -> Ran(NetstatHeading \o Bytes \o ToDigits(env.rx) \o <<" ", " ">>
                      \o ToDigits(env.tx) \o <<"\r", "\n">>)

\* What running nvidia-smi can give.
GpuCommands ==
    { [spawned |-> FALSE, utf8 |-> TRUE, stdout |-> <<>>],
      [spawned |-> TRUE, utf8 |-> FALSE, stdout |-> <<>>],
      Ran(<<>>),
      Ran(<<"4", "5", ",", " ", "7", "0", ",", " ", "1", "2", "0">>),
      Ran(<<"4", "5", ",", " ", "b", "a", "d", ",", " ", "1", "2", "0">>) }

\* Every output of at most MaxGpuLen characters over a small alphabet.
GpuAlphabet == {"4", "5", "b", ",", " "}
AllGpuCommands == { Ran(s) : s \in UNION { [1..n -> GpuAlphabet] : n \in 0..MaxGpuLen } }

\* Every snapshot of at most MaxProcs processes, in iteration order.
ProcessEntries == { [name |-> nm, cpu_usage |-> u] : nm \in {"A", "B", "C"}, u \in {Zero, Fin(10, 1), Fin(55, 1)} }
AllSnapshots == UNION { [1..n -> ProcessEntries] : n \in 0..MaxProcs }

\* ------------------------------------------------------------------ state
VARIABLES
    pc,                     \* the statement of main the process is at
    panic_msg,              \* the panic that ended the process, "" while it runs
    overflow_checks,        \* whether the build checks integer overflow
    exclude_gpu,            \* args.exclude_gpu
    net_traffic,            \* the NetworkTraffic of main
    timestamp, cpu_usage, ram_usage, heaviest_process_name,
    download_rate, upload_rate, gpu_usage, gpu_temp, gpu_power,
    data,                   \* the encoded record
    response,               \* the transport's answer: "none", "ok", "err"
    sys,                    \* what the sysinfo collaborator reported in this tick
    net_pre,                \* net_traffic when update() was last called
    net_env,                \* what the collaborators did in that call
    net_kind,               \* how that call ended: "none", "ok", "err", "panic"
    net_good,               \* what the last update() that succeeded in an earlier tick observed
    net_fails,              \* how many update() failed in a row in the ticks since
    gpu_cmd,                \* what nvidia-smi gave in this tick
    gpu_invocations,        \* how many times nvidia-smi was run
    posts                   \* how many times this tick's record was sent

locals == <<timestamp, cpu_usage, ram_usage, heaviest_process_name,
            download_rate, upload_rate, gpu_usage, gpu_temp, gpu_power, data, response>>
build == <<overflow_checks, exclude_gpu>>
net_ghost == <<net_pre, net_env, net_kind, net_good, net_fails>>
vars == <<pc, panic_msg, build, net_traffic, locals, sys, net_ghost, gpu_cmd, gpu_invocations, posts>>

Unset == [k |-> "unset", n |-> 0, d |-> 0]
NoTimestamp == [secs |-> -1, nanos |-> 0]
NoEnv == [class |-> "none", rx |-> 0, tx |-> 0, secs |-> 0]
NoCommand == [spawned |-> FALSE, utf8 |-> FALSE, stdout |-> <<>>]
NoSys == [cpu |-> Unset, used_memory |-> 0, processes |-> <<>>]
NoSample == [bytes_received |-> -1, bytes_sent |-> -1, timestamp |-> -1]

\* The state at the top of an iteration: the locals of the loop body do not
\* exist yet, and the tick that ends enters the history of update().
FreshTick ==
    /\ timestamp' = NoTimestamp
    /\ cpu_usage' = Unset /\ ram_usage' = Unset /\ heaviest_process_name' = ""
    /\ download_rate' = Unset /\ upload_rate' = Unset
    /\ gpu_usage' = Unset /\ gpu_temp' = Unset /\ gpu_power' = Unset
    /\ data' = <<>> /\ response' = "none"
    /\ sys' = NoSys
    /\ net_pre' = net_traffic /\ net_env' = NoEnv /\ net_kind' = "none"
    /\ net_good' = IF net_kind = "ok"
                   THEN [bytes_received |-> net_env.rx, bytes_sent |-> net_env.tx,
                         timestamp |-> net_env.secs]
                   ELSE net_good
    /\ net_fails' = IF net_kind = "ok" \/ net_good = NoSample THEN 0
                    ELSE IF net_kind = "err" /\ net_fails < MaxFails THEN net_fails + 1
                    ELSE net_fails
    /\ gpu_cmd' = NoCommand
    /\ posts' = 0

\* The state in which main is at statement start for the first time, its
\* NetworkTraffic being one of nets.
InitAt(start, nets) ==
    /\ pc = start /\ panic_msg = ""
    /\ overflow_checks \in BOOLEAN /\ exclude_gpu \in BOOLEAN
    /\ net_traffic \in nets
    /\ timestamp = NoTimestamp
    /\ cpu_usage = Unset /\ ram_usage = Unset /\ heaviest_process_name = ""
    /\ download_rate = Unset /\ upload_rate = Unset
    /\ gpu_usage = Unset /\ gpu_temp = Unset /\ gpu_power = Unset
    /\ data = <<>> /\ response = "none"
    /\ sys = NoSys
    /\ net_pre = net_traffic /\ net_env = NoEnv /\ net_kind = "none"
    /\ net_good = (IF net_traffic = NetworkTraffic_new THEN NoSample ELSE net_traffic)
    /\ net_fails = 0
    /\ gpu_cmd = NoCommand
    /\ gpu_invocations = 0
    /\ posts = 0

Init == InitAt("timestamp", {NetworkTraffic_new})

Panic(msg) == pc' = "panicked" /\ panic_msg' = msg

\* Lines 60-63.
CaptureTimestamp ==
    /\ pc = "timestamp"
    /\ \E now \in TickInstants :
          LET since == DurationSinceEpoch(now)
          IN  IF since.ok
              THEN /\ timestamp' = as_nanos(since.v)
                   /\ pc' = "cpu" /\ UNCHANGED panic_msg
              ELSE /\ Panic("Time went backwards") /\ UNCHANGED timestamp
    /\ UNCHANGED <<build, net_traffic, cpu_usage, ram_usage, heaviest_process_name,
                   download_rate, upload_rate, gpu_usage, gpu_temp, gpu_power, data, response,
                   sys, net_ghost, gpu_cmd, gpu_invocations, posts>>

\* Line 65 and get_cpu_usage: every getter refreshes what it reads just before
\* reading it, so sys keeps only the values read in this tick.
GetCpuUsage ==
    /\ pc = "cpu"
    /\ \E c \in CpuSamples :
          /\ sys' = [sys EXCEPT !.cpu = c]
          /\ cpu_usage' = sys'.cpu
    /\ pc' = "ram"
    /\ UNCHANGED <<panic_msg, build, net_traffic, timestamp, ram_usage, heaviest_process_name,
                   download_rate, upload_rate, gpu_usage, gpu_temp, gpu_power, data, response,
                   net_ghost, gpu_cmd, gpu_invocations, posts>>

\* Line 66 and get_ram_usage: used_memory as f32 / 1024 / 1024 / 1024.
GetRamUsage ==
    /\ pc = "ram"
    /\ \E m \in MemSamples :
          /\ sys' = [sys EXCEPT !.used_memory = m]
          /\ ram_usage' = Fin(sys'.used_memory, 1024 * 1024 * 1024)
    /\ pc' = "process"
    /\ UNCHANGED <<panic_msg, build, net_traffic, timestamp, cpu_usage, heaviest_process_name,
                   download_rate, upload_rate, gpu_usage, gpu_temp, gpu_power, data, response,
                   net_ghost, gpu_cmd, gpu_invocations, posts>>

\* Line 67, for the snapshots the collaborator may report.
GetHeaviestProcessStep(snapshots) ==
    /\ pc = "process"
    /\ \E procs \in snapshots :
          /\ sys' = [sys EXCEPT !.processes = procs]
          /\ heaviest_process_name' = get_heaviest_process(sys'.processes)
    /\ pc' = "network"
    /\ UNCHANGED <<panic_msg, build, net_traffic, timestamp, cpu_usage, ram_usage,
                   download_rate, upload_rate, gpu_usage, gpu_temp, gpu_power, data, response,
                   net_ghost, gpu_cmd, gpu_invocations, posts>>

GetHeaviestProcess == GetHeaviestProcessStep(ProcessSnapshots)

\* The match of lines 70-76 with 0.0 in its Err arm.
MatchRates_ZeroOnErr(r) == IF r.kind = "ok" THEN r.rates ELSE <<Zero, Zero>>

\* The match of lines 70-76 on the result r of update(): its rates, or -1.0
\* for both when it is an error.
MatchRates(r) == IF r.kind = "ok" THEN r.rates ELSE <<MinusOne, MinusOne>>

\* Lines 70-76: the call of update() and the match on its result, for the
\* calls envs; next is the statement the caller goes on with.
NetUpdateStep(envs, next) ==
    /\ pc = "network"
    /\ \E env \in envs :
          LET r == update(net_traffic, NetstatCommand(env), [secs |-> env.secs, nanos |-> 0],
                          overflow_checks)
          IN  /\ net_pre' = net_traffic /\ net_env' = env /\ net_kind' = r.kind
              /\ UNCHANGED <<net_good, net_fails>>
              /\ net_traffic' = r.self
              /\ IF r.kind \in {"ok", "err"}
                 THEN /\ download_rate' = MatchRates(r)[1] /\ upload_rate' = MatchRates(r)[2]
                      /\ pc' = next /\ UNCHANGED panic_msg
                 ELSE /\ Panic(r.msg) /\ UNCHANGED <<download_rate, upload_rate>>
    /\ UNCHANGED <<build, timestamp, cpu_usage, ram_usage, heaviest_process_name,
                   gpu_usage, gpu_temp, gpu_power, data, response,
                   sys, gpu_cmd, gpu_invocations, posts>>

NetUpdate == NetUpdateStep(LoopNetEnv, "gpu")

\* Line 79, for the outputs cmds the utility may give.  The count of runs of
\* the utility is explored up to MaxGpuCalls.
GetGpuInfoStep(cmds) ==
    /\ pc = "gpu"
    /\ \E cmd \in cmds :
          LET r == get_gpu_info(exclude_gpu, cmd)
          IN  /\ r.invoked => gpu_invocations < MaxGpuCalls
              /\ gpu_invocations' = gpu_invocations + (IF r.invoked THEN 1 ELSE 0)
              /\ gpu_cmd' = IF r.invoked THEN cmd ELSE NoCommand
              /\ IF r.kind = "ok"
                 THEN /\ gpu_usage' = r.v[1] /\ gpu_temp' = r.v[2] /\ gpu_power' = r.v[3]
                      /\ pc' = "format" /\ UNCHANGED panic_msg
                 ELSE /\ Panic(r.msg) /\ UNCHANGED <<gpu_usage, gpu_temp, gpu_power>>
    /\ UNCHANGED <<build, net_traffic, timestamp, cpu_usage, ram_usage, heaviest_process_name,
                   download_rate, upload_rate, data, response, sys, net_ghost, posts>>

GetGpuInfo == GetGpuInfoStep(GpuCommands)

\* Lines 83-94.
Format ==
    /\ pc = "format"
    /\ data' = FormatRecord(cpu_usage, ram_usage, heaviest_process_name,
                            gpu_usage, gpu_temp, gpu_power, download_rate, upload_rate, timestamp)
    /\ pc' = "send"
    /\ UNCHANGED <<panic_msg, build, net_traffic, timestamp, cpu_usage, ram_usage,
                   heaviest_process_name, download_rate, upload_rate,
                   gpu_usage, gpu_temp, gpu_power, response,
                   sys, net_ghost, gpu_cmd, gpu_invocations, posts>>

\* Lines 98-106 with a second attempt after a failed one.
Send_RetriesOnError ==
    /\ pc = "send"
    /\ response' \in {"ok", "err"}
    /\ posts' = posts + (IF response' = "err" THEN 2 ELSE 1)
    /\ pc' = "sleep"
    /\ UNCHANGED <<panic_msg, build, net_traffic, timestamp, cpu_usage, ram_usage,
                   heaviest_process_name, download_rate, upload_rate,
                   gpu_usage, gpu_temp, gpu_power, data,
                   sys, net_ghost, gpu_cmd, gpu_invocations>>

\* Lines 98-106 with a send that is not waited for: the loop goes on while the
\* request is still in flight.
Send_Detached ==
    /\ pc = "send"
    /\ posts' = posts + 1
    /\ pc' = "sleep"
    /\ UNCHANGED <<panic_msg, build, net_traffic, timestamp, cpu_usage, ram_usage,
                   heaviest_process_name, download_rate, upload_rate,
                   gpu_usage, gpu_temp, gpu_power, data, response,
                   sys, net_ghost, gpu_cmd, gpu_invocations>>

\* Lines 98-106: the record is posted once; either outcome is only logged.
Send ==
    /\ pc = "send"
    /\ response' \in {"ok", "err"}
    /\ posts' = posts + 1
    /\ pc' = "sleep"
    /\ UNCHANGED <<panic_msg, build, net_traffic, timestamp, cpu_usage, ram_usage,
                   heaviest_process_name, download_rate, upload_rate,
                   gpu_usage, gpu_temp, gpu_power, data,
                   sys, net_ghost, gpu_cmd, gpu_invocations>>

\* Line 108 and the jump back to the top of the loop.
Sleep ==
    /\ pc = "sleep"
    /\ pc' = "timestamp"
    /\ FreshTick
    /\ UNCHANGED <<panic_msg, build, net_traffic, gpu_invocations>>

Next ==
    \/ CaptureTimestamp
    \/ GetCpuUsage
    \/ GetRamUsage
    \/ GetHeaviestProcess
    \/ NetUpdate
    \/ GetGpuInfo
    \/ Format
    \/ Send
    \/ Sleep

Spec == Init /\ [][Next]_vars

\* The Rate Tracker alone: one call of update() on a tracker in any state a
\* successful update can leave it in (or as constructed), over every counter
\* pair and second within the bounds.
NetStates ==
    { [bytes_received |-> rx, bytes_sent |-> tx, timestamp |-> t] :
          rx \in 0..MaxBytes, tx \in 0..MaxBytes, t \in 0..MaxTime }
UpdateCall == NetUpdateStep(NetEnv, "called")
SpecNet == InitAt("network", NetStates) /\ [][UpdateCall]_vars

\* get_gpu_info alone, over every output within the bounds.
GpuProbe == GetGpuInfoStep(AllGpuCommands \cup GpuCommands)
SpecGpu == InitAt("gpu", {NetworkTraffic_new}) /\ [][GpuProbe]_vars

\* get_heaviest_process alone, over every snapshot within the bounds.
SelectProcess == GetHeaviestProcessStep(AllSnapshots \cup ProcessSnapshots)
SpecSelect == InitAt("process", {NetworkTraffic_new}) /\ [][SelectProcess]_vars

\* The encoding alone, over the samples a tick can hand to it: the usages and
\* the instants of the loop, a GPU triple of readings or sentinels, rates that
\* are a sentinel, zero, a fraction or not finite, and the name the process
\* list gave for the heaviest process, which is any text: the empty name, a
\* plain name, or one that holds a line break.
ProcessNames == {"", "A", "B", "\n"}
GpuTriples == {Sentinels, <<Fin(45, 1), Fin(70, 1), Fin(120, 1)>>, <<Fin(45, 1), MinusOne, Fin(120, 1)>>}
RateSamples == {MinusOne, Zero, Fin(1, 2), Fin(MaxBytes, 1), Inf, NaN}
InitFormat ==
    /\ pc = "format" /\ panic_msg = ""
    /\ overflow_checks \in BOOLEAN /\ exclude_gpu \in BOOLEAN
    /\ net_traffic = NetworkTraffic_new
    /\ timestamp \in {as_nanos(t) : t \in {i \in TickInstants : DurationSinceEpoch(i).ok}}
    /\ cpu_usage \in CpuSamples
    /\ ram_usage \in {Fin(m, 1024 * 1024 * 1024) : m \in MemSamples}
    /\ heaviest_process_name \in ProcessNames
    /\ download_rate \in RateSamples /\ upload_rate \in RateSamples
    /\ \E g \in GpuTriples : gpu_usage = g[1] /\ gpu_temp = g[2] /\ gpu_power = g[3]
    /\ data = <<>> /\ response = "none"
    /\ sys = NoSys
    /\ net_pre = net_traffic /\ net_env = NoEnv /\ net_kind = "none"
    /\ net_good = (IF net_traffic = NetworkTraffic_new THEN NoSample ELSE net_traffic)
    /\ net_fails = 0
    /\ gpu_cmd = NoCommand
    /\ gpu_invocations = 0
    /\ posts = 0
SpecFormat == InitFormat /\ [][Format]_vars

\* ----------------------------------------------------------------- claims
\* What the collaborators reported in the last call of update().
Observed == [bytes_received |-> net_env.rx, bytes_sent |-> net_env.tx, timestamp |-> net_env.secs]
Returned == pc \in {"called", "gpu", "format", "send", "sleep"} /\ net_kind \in {"ok", "err"}
FailureClasses == {"spawn", "utf8", "short", "fields", "nonint_rx", "nonint_tx", "clock"}

\* C1: a successful update() on a tracker whose stored timestamp is 0 (the
\* first one after new()) returns exactly (0.0, 0.0) whatever counters it
\* observes, and leaves the tracker holding the observed counters and second.
C1_FirstUpdateReturnsZero ==
    (Returned /\ net_kind = "ok" /\ net_pre.timestamp = 0) =>
        /\ download_rate = Zero /\ upload_rate = Zero
        /\ net_traffic = Observed

\* A first update on new() that observed non-zero counters at a later second.
C1_Witness ==
    /\ pc = "called" /\ net_kind = "ok" /\ net_pre = NetworkTraffic_new
    /\ net_env.rx = MaxBytes /\ net_env.tx = 1 /\ net_env.secs = MaxTime
    /\ download_rate = Zero /\ net_traffic.bytes_received = MaxBytes

\* C2: a successful update() on a tracker that holds a sample (stored
\* timestamp > 0), at a later second and with counters not below the stored
\* ones, returns for each direction (observed counter - stored counter) /
\* (observed second - stored second), download from bytes_received and upload
\* from bytes_sent, and leaves the tracker holding the observed values.
C2_RateIsDifferenceOverElapsed ==
    (/\ Returned /\ net_kind = "ok" /\ net_pre.timestamp > 0
     /\ net_env.secs > net_pre.timestamp
     /\ net_env.rx >= net_pre.bytes_received /\ net_env.tx >= net_pre.bytes_sent) =>
        LET dt == net_env.secs - net_pre.timestamp
        IN  /\ download_rate.k = "fin" /\ download_rate.d > 0
            /\ download_rate.n * dt = (net_env.rx - net_pre.bytes_received) * download_rate.d
            /\ upload_rate.k = "fin" /\ upload_rate.d > 0
            /\ upload_rate.n * dt = (net_env.tx - net_pre.bytes_sent) * upload_rate.d
            /\ net_traffic = Observed

\* A rate that is a proper fraction: 1 byte received over 2 seconds, none sent.
C2_Witness ==
    /\ pc = "called" /\ net_kind = "ok" /\ net_pre.timestamp = 1 /\ net_env.secs = 3
    /\ net_env.rx = net_pre.bytes_received + 1 /\ net_env.tx = net_pre.bytes_sent
    /\ download_rate = Fin(1, 2) /\ upload_rate = Zero

\* C3: each way update() fails (the command cannot be run, its output is not
\* text, has fewer than 5 lines, has fewer than 3 fields on the counter line,
\* has a field that is no integer, or the clock cannot be read) returns an
\* error and leaves bytes_received, bytes_sent and timestamp as they were; a
\* success replaces all three by the observed values.
C3_ErrorLeavesStateUntouched ==
    Returned =>
        /\ net_env.class \in FailureClasses => net_kind = "err"
        /\ net_kind = "err" => net_traffic = net_pre
        /\ net_kind = "ok" => net_traffic = Observed

\* An error after the first counter had already been parsed, on a tracker
\* that holds a sample.
C3_Witness ==
    /\ pc = "called" /\ net_kind = "err" /\ net_env.class = "nonint_tx"
    /\ net_pre.timestamp > 0 /\ net_pre.bytes_received = MaxBytes
    /\ net_traffic = net_pre

\* C4: an update() on a tracker that holds a sample, observing at a later
\* second a counter below the stored one, does not end the process: it returns
\* for that direction a rate that is negative or plainly invalid (not finite,
\* or of the order of 2^64), and the tracker holds the observed values.
CounterWentBack ==
    /\ pc # "network" /\ net_env.class = "good" /\ net_pre.timestamp > 0
    /\ net_env.secs > net_pre.timestamp
    /\ (net_env.rx < net_pre.bytes_received \/ net_env.tx < net_pre.bytes_sent)
Invalid(rate) == rate.k \in {"inf", "nan", "wrapnum"} \/ (rate.k = "fin" /\ rate.n < 0)
C4_CounterResetDoesNotPanic ==
    CounterWentBack =>
        /\ net_kind = "ok"
        /\ (net_env.rx < net_pre.bytes_received => Invalid(download_rate))
        /\ (net_env.tx < net_pre.bytes_sent => Invalid(upload_rate))
        /\ net_traffic = Observed

\* The record of a tick whose collaborators reported sys, gpu_cmd and the
\* instant timestamp, with the texts dl and ul as its two rates.
SampledRecord(dl, ul) ==
    LET gpu == get_gpu_info(exclude_gpu, gpu_cmd).v
    IN  <<"system_metrics,host=localhost cpu_usage=">> \o DisplayFloat(sys.cpu)
        \o <<",ram_usage=">> \o DisplayFloat(Fin(sys.used_memory, 1073741824))
        \o <<",heaviest_process=\"", get_heaviest_process(sys.processes), "\"">>
        \o <<",gpu_usage=">> \o DisplayFloat(gpu[1])
        \o <<",gpu_temp=">> \o DisplayFloat(gpu[2])
        \o <<",gpu_power=">> \o DisplayFloat(gpu[3])
        \o <<",download_rate=">> \o dl \o <<",upload_rate=">> \o ul
        \o <<" ">> \o DisplayNanos(timestamp)

\* C5: in a tick where update() fails, the record that is built has
\* download_rate and upload_rate both -1, and its other fields are the CPU
\* usage, RAM usage, heaviest process, GPU triple and timestamp sampled in
\* that tick.
C5_NetworkFailureGivesSentinelRates ==
    (pc \in {"send", "sleep"} /\ net_kind = "err") =>
        /\ download_rate = MinusOne /\ upload_rate = MinusOne
        /\ data = SampledRecord(<<"-", "1">>, <<"-", "1">>)

\* A failed update() in a tick that sampled non-trivial values everywhere else.
C5_Witness ==
    /\ pc = "send" /\ net_kind = "err" /\ net_env.class = "spawn"
    /\ sys.cpu = Fin(25, 2) /\ sys.used_memory = 536870912 /\ heaviest_process_name = "B"
    /\ gpu_usage = Fin(45, 1) /\ gpu_power = Fin(120, 1) /\ timestamp.secs = MaxTime
    /\ download_rate = MinusOne

\* C6 (its part about sampler outcomes): once a tick has captured its
\* timestamp, no outcome of the network command, of the GPU utility or of the
\* transport ends the process.
C6_SamplerFailureNeverAborts ==
    timestamp # NoTimestamp => pc # "panicked"

\* C7: with exclude_gpu set, nvidia-smi is never run, in any tick, and
\* get_gpu_info returns (-1.0, -1.0, -1.0).
C7_ExcludedGpuIsNeverInvoked ==
    exclude_gpu =>
        /\ gpu_invocations = 0
        /\ pc \in {"format", "send", "sleep"} =>
              gpu_usage = MinusOne /\ gpu_temp = MinusOne /\ gpu_power = MinusOne

\* get_gpu_info has returned in a second or later tick of a run with
\* exclude_gpu set.
C7_Witness ==
    /\ exclude_gpu /\ pc = "format" /\ net_pre.timestamp > 0
    /\ gpu_usage = MinusOne /\ gpu_invocations = 0

\* C8: when the output of the utility is three fields separated by ", ", each
\* position is decoded on its own: a field that is a number (after trimming)
\* gives that number, any other field gives -1.0 in its position only.
\* "45, 70, 120" gives (45, 70, 120) and "45, bad, 120" gives (45, -1, 120).
Separators(s) == {k \in 1..(Len(s) - 1) : s[k] = "," /\ s[k + 1] = " "}
Numeric(t) == t # <<>> /\ \A i \in 1..Len(t) : t[i] \in {"0", "1", "2", "3", "4", "5", "6", "7", "8", "9"}
Decoded(field) == LET t == Trim(field) IN IF Numeric(t) THEN Fin(DigitsVal(t), 1) ELSE MinusOne
C8_FieldsDecodeIndependently ==
    (pc # "gpu" /\ ~exclude_gpu /\ gpu_cmd.spawned /\ gpu_cmd.utf8) =>
        LET s == gpu_cmd.stdout
            seps == Separators(s)
        IN  /\ Cardinality(seps) = 2 =>
                  LET i == CHOOSE k \in seps : \A m \in seps : k <= m
                      j == CHOOSE k \in seps : \A m \in seps : m <= k
                  IN  /\ pc = "format"
                      /\ gpu_usage = Decoded(SubSeq(s, 1, i - 1))
                      /\ gpu_temp = Decoded(SubSeq(s, i + 2, j - 1))
                      /\ gpu_power = Decoded(SubSeq(s, j + 2, Len(s)))
            /\ s = <<"4", "5", ",", " ", "7", "0", ",", " ", "1", "2", "0">> =>
                  <<gpu_usage, gpu_temp, gpu_power>> = <<Fin(45, 1), Fin(70, 1), Fin(120, 1)>>
            /\ s = <<"4", "5", ",", " ", "b", "a", "d", ",", " ", "1", "2", "0">> =>
                  <<gpu_usage, gpu_temp, gpu_power>> = <<Fin(45, 1), MinusOne, Fin(120, 1)>>

\* The middle field alone does not parse.
C8_Witness ==
    /\ pc = "format" /\ ~exclude_gpu
    /\ gpu_cmd = Ran(<<"4", ",", " ", "b", ",", " ", "5">>)
    /\ <<gpu_usage, gpu_temp, gpu_power>> = <<Fin(4, 1), MinusOne, Fin(5, 1)>>

\* C9: when exclude_gpu is false and nvidia-smi cannot be run, get_gpu_info
\* returns (-1.0, -1.0, -1.0), the process does not end, and the tick goes on
\* to encode and send its record.
SpawnFailed == ~exclude_gpu /\ gpu_cmd = [spawned |-> FALSE, utf8 |-> TRUE, stdout |-> <<>>]
C9_AbsentGpuUtilityGivesSentinels ==
    SpawnFailed =>
        /\ pc \in {"format", "send", "sleep"} /\ panic_msg = ""
        /\ gpu_usage = MinusOne /\ gpu_temp = MinusOne /\ gpu_power = MinusOne
        /\ pc = "format" => ENABLED Format
        /\ pc = "send" => data # <<>> /\ ENABLED Send
        /\ pc = "sleep" => data # <<>> /\ posts = 1

\* The record of a tick in which nvidia-smi could not be run has been sent.
C9_Witness ==
    /\ SpawnFailed /\ pc = "sleep" /\ posts = 1 /\ response = "ok"
    /\ gpu_usage = MinusOne

\* C10: get_heaviest_process returns the name of a process whose usage no
\* other exceeds and which comes before every other process of equal usage in
\* iteration order; it returns "" when no process has usage above 0.0 (an
\* empty snapshot included).  [{A,10},{B,55},{C,30}] gives "B".
C10_HeaviestIsFirstMaximum ==
    pc = "network" =>
        LET procs == sys.processes
            busy == {i \in 1..Len(procs) : FloatGt(procs[i].cpu_usage, Zero)}
        IN  /\ busy = {} => heaviest_process_name = ""
            /\ busy # {} =>
                  \E i \in busy :
                      /\ \A j \in 1..Len(procs) : ~FloatGt(procs[j].cpu_usage, procs[i].cpu_usage)
                      /\ \A j \in 1..(i - 1) : FloatGt(procs[i].cpu_usage, procs[j].cpu_usage)
                      /\ heaviest_process_name = procs[i].name
            /\ procs = <<[name |-> "A", cpu_usage |-> Fin(10, 1)], [name |-> "B", cpu_usage |-> Fin(55, 1)],
                         [name |-> "C", cpu_usage |-> Fin(30, 1)]>> => heaviest_process_name = "B"

\* Two processes share the maximum; the earlier one is returned.
C10_Witness ==
    /\ pc = "network"
    /\ sys.processes = <<[name |-> "C", cpu_usage |-> Fin(10, 1)], [name |-> "A", cpu_usage |-> Fin(55, 1)],
                         [name |-> "B", cpu_usage |-> Fin(55, 1)]>>
    /\ heaviest_process_name = "A"

\* C11: the statements of a tick run one after the other in one fixed order
\* (timestamp, the samplers cpu, ram, process, network, gpu, then encoding,
\* delivery, sleep) and only the sleep leads to the next tick; the sleep is
\* entered only once the delivery call has returned its answer, and the
\* sampling of a tick starts with nothing left of the tick before: no record,
\* no answer awaited, nothing posted.
StepOrder ==
    {<<"timestamp", "cpu">>, <<"cpu", "ram">>, <<"ram", "process">>, <<"process", "network">>,
     <<"network", "gpu">>, <<"gpu", "format">>, <<"format", "send">>, <<"send", "sleep">>,
     <<"sleep", "timestamp">>}
C11_TicksAreSequential ==
    [][/\ <<pc, pc'>> \in StepOrder \/ pc' = "panicked"
       /\ pc' = "sleep" => response' \in {"ok", "err"} /\ posts' = 1
       /\ pc' \in {"timestamp", "cpu", "ram", "process", "network", "gpu", "format"} =>
              response' = "none" /\ posts' = 0 /\ data' = <<>>
       /\ pc' = "cpu" => timestamp' # NoTimestamp]_vars

\* The sampling of a later tick has started: the tracker holds the sample of
\* an earlier tick, whose delivery failed or succeeded and is over.
C11_Witness ==
    /\ pc = "cpu" /\ net_traffic.timestamp > 0 /\ timestamp # NoTimestamp
    /\ response = "none" /\ posts = 0 /\ data = <<>>

\* C12: the record of a tick is posted exactly once, by the delivery step and
\* by no other; whatever the answer of the transport, the step after it is the
\* sleep and the step after that leaves the loop at the top of the next tick
\* with the record, the answer and the count of posts gone, the process
\* running and the tracker as it was: nothing distinguishes a tick that
\* follows a failed delivery from one that follows a successful delivery.
C12_RecordSentOnce ==
    [][/\ posts' # posts =>
              \/ pc = "send" /\ posts = 0 /\ posts' = 1 /\ data # <<>> /\ data' = data
              \/ pc = "sleep" /\ posts' = 0
       /\ pc = "send" => pc' = "sleep" /\ posts' = 1 /\ response' \in {"ok", "err"}
       /\ pc = "sleep" =>
              /\ posts = 1 /\ pc' = "timestamp" /\ panic_msg' = ""
              /\ locals' = <<NoTimestamp, Unset, Unset, "", Unset, Unset, Unset, Unset, Unset,
                             <<>>, "none">>
              /\ posts' = 0 /\ net_traffic' = net_traffic]_vars

\* The delivery of a record has failed and the loop is at its sleep.
C12_Witness ==
    /\ pc = "sleep" /\ response = "err" /\ posts = 1 /\ data # <<>> /\ panic_msg = ""

\* C13: the record encoded from a sample is one line (it holds no line
\* break); its fixed parts are, in this order, the measurement and tag
\* system_metrics,host=localhost, the keys cpu_usage, ram_usage,
\* heaviest_process, gpu_usage, gpu_temp, gpu_power, download_rate,
\* upload_rate, and the space before the timestamp; the process name stands
\* between double quotes; and the whole is the text of the sample's nine
\* values laid between those parts, the nanosecond timestamp last.
Template ==
    <<"system_metrics,host=localhost cpu_usage=", ",ram_usage=", ",heaviest_process=\"", "\"",
      ",gpu_usage=", ",gpu_temp=", ",gpu_power=", ",download_rate=", ",upload_rate=", " ">>
IsFixedPart(c) == \E k \in 1..Len(Template) : c = Template[k]
C13_RecordIsOneFixedLine ==
    pc = "send" =>
        /\ \A i \in 1..Len(data) : data[i] \notin {"\n", "\r"}
        /\ SelectSeq(data, IsFixedPart) = Template
        /\ data = <<Template[1]>> \o DisplayFloat(cpu_usage)
                  \o <<Template[2]>> \o DisplayFloat(ram_usage)
                  \o <<Template[3], heaviest_process_name, Template[4]>>
                  \o <<Template[5]>> \o DisplayFloat(gpu_usage)
                  \o <<Template[6]>> \o DisplayFloat(gpu_temp)
                  \o <<Template[7]>> \o DisplayFloat(gpu_power)
                  \o <<Template[8]>> \o DisplayFloat(download_rate)
                  \o <<Template[9]>> \o DisplayFloat(upload_rate)
                  \o <<Template[10]>> \o DisplayNanos(timestamp)

\* C14: when the utility ran and its output holds fewer than three fields
\* separated by ", " (no output, one field, a message), get_gpu_info returns
\* and the process goes on to encode: each field that is there is decoded as
\* in C8 and each missing one is -1.0.
FieldCount(s) == Cardinality(Separators(s)) + 1
C14_ShortGpuOutputRecovers ==
    (/\ pc # "gpu" /\ ~exclude_gpu /\ gpu_cmd.spawned /\ gpu_cmd.utf8
     /\ FieldCount(gpu_cmd.stdout) < 3) =>
        LET s == gpu_cmd.stdout
            seps == Separators(s)
        IN  /\ pc # "panicked" /\ panic_msg = ""
            /\ gpu_power = MinusOne
            /\ seps = {} => gpu_usage = Decoded(s) /\ gpu_temp = MinusOne
            /\ seps # {} =>
                  LET i == CHOOSE k \in seps : TRUE
                  IN  /\ gpu_usage = Decoded(SubSeq(s, 1, i - 1))
                      /\ gpu_temp = Decoded(SubSeq(s, i + 2, Len(s)))

\* C15: an update() on a tracker that holds a sample, reading a second
\* earlier than the stored one (the counters not below the stored ones),
\* returns to the loop (net_kind is then "ok" or "err"): the process does not
\* end there.
ClockWentBack ==
    /\ pc # "network" /\ net_env.class = "good" /\ net_pre.timestamp > 0
    /\ net_env.secs < net_pre.timestamp
    /\ net_env.rx >= net_pre.bytes_received /\ net_env.tx >= net_pre.bytes_sent
C15_ClockStepBackIsNotFatal ==
    ClockWentBack => net_kind \in {"ok", "err"}

\* C16: the stored timestamp is 0 exactly while no update() has succeeded:
\* before the first success the tracker is as constructed, whatever calls
\* failed; a success of a tracker at 0 that reads a second above 0 leaves it
\* above 0; and a tracker whose timestamp is not 0 does not come back to 0 by
\* any later call, successful or failed, so that the tracker takes a success
\* for the first one once only.
C16_TimestampZeroIffNeverSampled ==
    /\ (net_good = NoSample /\ net_kind # "ok") => net_traffic = NetworkTraffic_new
    /\ (Returned /\ net_kind = "ok" /\ net_pre.timestamp = 0 /\ net_env.secs > 0) =>
           net_traffic.timestamp > 0
    /\ net_pre.timestamp > 0 => net_traffic.timestamp > 0

\* C17: a successful update() that comes after one or more failed ones in a
\* row, themselves after a success that stored a sample (timestamp above 0),
\* runs on that sample: the tracker it reads is what that success observed,
\* its rates are those of lines 145-155 on that observation, and with a later
\* second and counters not below, each rate is the counter
\* difference over the seconds elapsed since that success, the failed ticks
\* included, and not the (0.0, 0.0) of a first sample.
AfterFailures ==
    /\ pc \in {"gpu", "format", "send", "sleep"} /\ net_kind = "ok"
    /\ net_fails >= 1 /\ net_good # NoSample /\ net_good.timestamp > 0
C17_RatesSpanFailedTicks ==
    AfterFailures =>
        /\ net_pre = net_good
        /\ download_rate = RateOf(net_env.rx, net_good.bytes_received,
                                  net_env.secs, net_good.timestamp, overflow_checks).v
        /\ upload_rate = RateOf(net_env.tx, net_good.bytes_sent,
                                net_env.secs, net_good.timestamp, overflow_checks).v
        /\ (/\ net_env.secs > net_good.timestamp
            /\ net_env.rx >= net_good.bytes_received /\ net_env.tx >= net_good.bytes_sent) =>
               LET dt == net_env.secs - net_good.timestamp
               IN  /\ download_rate.k = "fin" /\ download_rate.d > 0
                   /\ download_rate.n * dt = (net_env.rx - net_good.bytes_received) * download_rate.d
                   /\ upload_rate.k = "fin" /\ upload_rate.d > 0
                   /\ upload_rate.n * dt = (net_env.tx - net_good.bytes_sent) * upload_rate.d
        /\ net_traffic = Observed

\* A success at second 1, two failed ticks, then a success at the last
\* second that received all bytes since: the rate spans the whole gap.
C17_Witness ==
    /\ AfterFailures /\ net_fails = MaxFails
    /\ net_good = [bytes_received |-> 0, bytes_sent |-> 0, timestamp |-> 1]
    /\ net_env.rx = MaxBytes /\ net_env.tx = 0 /\ net_env.secs = MaxTime
    /\ download_rate = Fin(MaxBytes, MaxTime - 1) /\ upload_rate = Zero

\* C18: once update() has returned in a tick, download_rate is -1.0 exactly
\* when it returned an error, and so is upload_rate: the two are both -1.0 or
\* both rates of a success, which are never -1.0; and the record that is built
\* and sent writes them so, -1 in a rate field exactly when update() failed.
SentinelText == <<"-", "1">>
C18_SentinelMeansFailure ==
    (pc \in {"gpu", "format", "send", "sleep"}) =>
        /\ net_kind \in {"ok", "err"}
        /\ download_rate = MinusOne <=> net_kind = "err"
        /\ upload_rate = MinusOne <=> net_kind = "err"
        /\ DisplayFloat(download_rate) = SentinelText <=> net_kind = "err"
        /\ DisplayFloat(upload_rate) = SentinelText <=> net_kind = "err"
        /\ pc \in {"send", "sleep"} =>
               data = SampledRecord(DisplayFloat(download_rate), DisplayFloat(upload_rate))

\* The record of a tick whose update() succeeded on unchanged received bytes
\* has been sent: a true zero next to a positive rate, no sentinel.
C18_Witness ==
    /\ pc = "sleep" /\ posts = 1 /\ net_kind = "ok" /\ net_pre.timestamp > 0
    /\ download_rate = Zero /\ upload_rate = Fin(MaxBytes, MaxTime - 1)

\* C19: an update() on a tracker that holds a sample, reading the very second
\* that is stored, returns Ok (net_kind is then "ok": no panic, no error) and
\* the tracker holds the observed counters and second.
SameSecond ==
    /\ pc # "network" /\ net_env.class = "good" /\ net_pre.timestamp > 0
    /\ net_env.secs = net_pre.timestamp
C19_ZeroElapsedReturnsOk ==
    SameSecond => net_kind = "ok" /\ net_traffic = Observed

====
